---------------------------- MODULE Spec2Model ----------------------------
(* Munawwara Care mobile client: localization bootstrap (i18n/index.ts),   *)
(* the three registration screens, and the list-and-mutate screens,        *)
(* modelled as state machines of the single-threaded UI event loop.  Every *)
(* await of the source is a point where other handlers may run.            *)
EXTENDS Integers, Sequences, FiniteSets, TLC

VARIABLES
    \* ---- localization bootstrap (src/src/i18n/index.ts)
    userLanguage,   \* AsyncStorage item 'user-language' (Null when absent)
    locales,        \* Localization.getLocales(): sequence of languageCode
    initPc,         \* position of initI18n: "getItem", "resume", "done", or ended
                    \* by an exception: "rejected" (getItem), "crashed" (line 30)
    savedLanguage,  \* local variable savedLanguage of initI18n
    lng,            \* language the translation engine was initialised with
    fallbackLng,    \* fallback language given to the translation engine
    language,       \* i18n.language: the active language (Null before init)
    changing,       \* changeLanguage calls suspended in their setItem, oldest first
    settledChoice,  \* language of the last changeLanguage call once nothing is
                    \* in flight and none was issued since (Null otherwise)
    relaunched,     \* the app was launched again since settledChoice was set
    \* ---- the mounted screen
    screen,         \* which screen component this run mounts
    mounted,        \* FALSE once navigation replaced / popped the screen
    form,           \* the useState text fields of the mounted form
    loading,        \* the screen's loading flag
    toast,          \* the toast last shown through showToast
    reqs,           \* requests in flight: records [id, kind, arg]
    issued,         \* number of requests issued so far
    authToken,      \* in-memory bearer token set by setAuthToken (0: unset)
    creds,          \* AsyncStorage keys token, role, full_name, user_id
    saving,         \* handleRegister suspended in its AsyncStorage writes
    timers,         \* pending setTimeout callbacks (response ids)
    nav,            \* navigation calls made so far, in order
    caught,         \* the error of the catch block the last step ran, if any
    \* ---- list screens and profile edit
    sessions,       \* CommunicationScreen: the sessions list
    messages,       \* ModeratorMessagesScreen: the messages list
    alerts,         \* Alert.alert dialogs on display, the last one on top
    initialLoading, \* EditProfileScreen: the profile is being fetched
    \* ---- history of the list screens
    fetched,        \* [id, data]: the answer to the latest-issued fetch that
                    \* succeeded so far (id 0: none), as the screen stores it
    deleted         \* ids of the messages whose DELETE succeeded

i18nVars == <<userLanguage, locales, initPc, savedLanguage, lng, fallbackLng,
              language, changing, settledChoice, relaunched>>
histVars == <<fetched, deleted>>
listVars == <<sessions, messages, alerts, initialLoading, histVars>>
regVars == <<authToken, creds, saving, timers>>
screenVars == <<screen, mounted, form, loading, toast, reqs, issued, authToken,
                creds, saving, timers, nav, caught, listVars>>
vars == <<userLanguage, locales, initPc, savedLanguage, lng, fallbackLng,
          language, changing, settledChoice, relaunched,
          screen, mounted, form, loading, toast, reqs, issued, authToken,
          creds, saving, timers, nav, caught,
          sessions, messages, alerts, initialLoading, fetched, deleted>>

-----------------------------------------------------------------------------
(* Bounds of the model *)

\* number of requests one mounted screen may issue in a run, after the fetch
\* of its useEffect
MaxRequests == 2
\* largest number of entries of a server error map
MaxErrors == 2
\* longest device locale list
MaxLocales == 2
\* longest list a fetch returns
MaxItems == 2
\* largest number of changeLanguage calls in flight at once
MaxChanges == 2

-----------------------------------------------------------------------------
(* JavaScript values *)

\* null / undefined result of AsyncStorage.getItem and of languageCode
Null == "<null>"

\* JavaScript truthiness of a string-or-null value
Truthy(v) == v # Null /\ v # ""

-----------------------------------------------------------------------------
(* Localization bootstrap *)

\* Object.keys(resources)
resources == {"en", "ar", "ur", "fr", "id", "tr"}

\* values the storage item and a device languageCode can hold
LanguageCodes == resources \cup {"de", "zz"}
StoredValues == LanguageCodes \cup {Null, ""}
DeviceCodes == {"en", "fr", "ar", "de", Null}
LocaleLists == UNION { [1..n -> DeviceCodes] : n \in 0..MaxLocales }

\* ResolveLanguage with the device locale consulted before the saved choice
ResolveLanguageDeviceFirst(saved, locs) ==
    IF Len(locs) > 0 /\ Truthy(locs[1]) /\ locs[1] \in resources THEN locs[1]
    ELSE IF Truthy(saved) THEN saved ELSE "en"

\* ResolveLanguage without the membership test on the device locale
ResolveLanguageUnchecked(saved, locs) ==
    IF Truthy(saved) THEN saved
    ELSE IF Truthy(locs[1]) THEN locs[1] ELSE "en"

\* the language initI18n hands to the engine, lines 28-32: savedLanguage when
\* truthy, else the first device locale's languageCode when it is a key of
\* resources, else 'en'
ResolveLanguage(saved, locs) ==
    IF Truthy(saved) THEN saved
    ELSE LET deviceLanguage == locs[1]
         IN  IF Truthy(deviceLanguage) /\ deviceLanguage \in resources
             THEN deviceLanguage
             ELSE "en"

\* line 26: await AsyncStorage.getItem(LANGUAGE_KEY) settles
initI18nGetItem ==
    /\ initPc = "getItem"
    /\ savedLanguage' = userLanguage
    /\ initPc' = "resume"
    /\ UNCHANGED <<userLanguage, locales, lng, fallbackLng>>
    /\ UNCHANGED <<language, changing, settledChoice, relaunched>>
    /\ UNCHANGED screenVars

\* line 26: AsyncStorage.getItem rejects; initI18n has no try block, so its
\* promise rejects and i18n.init is never called
initI18nGetItemFailed ==
    /\ initPc = "getItem"
    /\ initPc' = "rejected"
    /\ UNCHANGED <<userLanguage, locales, savedLanguage, lng, fallbackLng>>
    /\ UNCHANGED <<language, changing, settledChoice, relaunched>>
    /\ UNCHANGED screenVars

\* lines 28-46: the continuation of initI18n.  getLocales()[0] of an empty
\* list is undefined and reading .languageCode of it throws.
initI18n ==
    /\ initPc = "resume"
    /\ IF ~Truthy(savedLanguage) /\ Len(locales) = 0
       THEN /\ initPc' = "crashed"
            /\ UNCHANGED <<lng, fallbackLng, language>>
       ELSE /\ lng' = ResolveLanguage(savedLanguage, locales)
            /\ fallbackLng' = "en"
            /\ language' = lng'
            /\ initPc' = "done"
    /\ UNCHANGED <<userLanguage, locales, savedLanguage>>
    /\ UNCHANGED <<changing, settledChoice, relaunched>>
    /\ UNCHANGED screenVars

\* LANGUAGES of the localized sign-up screen: the values of its picker
LANGUAGES == {"en", "ar", "ur", "fr", "id", "tr"}
\* the entries of the picker the user taps in a run
PickedLanguages == {"ar", "fr"}

\* index of the oldest call of changing whose write has not landed (0: none)
FirstUnwritten ==
    IF \E i \in 1..Len(changing) : ~changing[i].written
    THEN CHOOSE i \in 1..Len(changing) :
            ~changing[i].written /\ \A j \in 1..(i - 1) : changing[j].written
    ELSE 0

\* handleLanguageChange of the picker calling changeLanguage(lang.value), up
\* to the await of line 55: the write is handed to AsyncStorage
handleLanguageChange(lang) ==
    /\ Len(changing) < MaxChanges
    /\ changing' = Append(changing, [lang |-> lang, written |-> FALSE])
    /\ settledChoice' = Null
    /\ relaunched' = FALSE
    /\ UNCHANGED <<userLanguage, locales, initPc, savedLanguage, lng, fallbackLng>>
    /\ UNCHANGED language
    /\ UNCHANGED screenVars

\* changeLanguageSetItem resolving without having stored the language
changeLanguageSetItemNoWrite ==
    /\ FirstUnwritten > 0
    /\ changing' = [changing EXCEPT ![FirstUnwritten].written = TRUE]
    /\ UNCHANGED <<userLanguage, locales, initPc, savedLanguage, lng, fallbackLng>>
    /\ UNCHANGED <<language, settledChoice, relaunched>>
    /\ UNCHANGED screenVars

\* line 55: AsyncStorage performs the oldest write not yet performed
changeLanguageSetItem ==
    /\ FirstUnwritten > 0
    /\ userLanguage' = changing[FirstUnwritten].lang
    /\ changing' = [changing EXCEPT ![FirstUnwritten].written = TRUE]
    /\ UNCHANGED <<locales, initPc, savedLanguage, lng, fallbackLng>>
    /\ UNCHANGED <<language, settledChoice, relaunched>>
    /\ UNCHANGED screenVars

\* line 55: the oldest write not yet performed fails; changeLanguage rejects
\* without reaching line 56
changeLanguageSetItemFailed ==
    /\ FirstUnwritten > 0
    /\ changing' = [i \in 1..(Len(changing) - 1) |->
                        IF i < FirstUnwritten THEN changing[i] ELSE changing[i + 1]]
    /\ UNCHANGED <<userLanguage, locales, initPc, savedLanguage, lng, fallbackLng>>
    /\ UNCHANGED <<language, settledChoice, relaunched>>
    /\ UNCHANGED screenVars

\* line 56: the oldest call resumes after its write and switches the engine
changeLanguage ==
    /\ changing # <<>> /\ Head(changing).written
    /\ language' = Head(changing).lang
    /\ changing' = Tail(changing)
    /\ settledChoice' = IF Tail(changing) = <<>> THEN Head(changing).lang
                         ELSE settledChoice
    /\ UNCHANGED <<userLanguage, locales, initPc, savedLanguage, lng, fallbackLng>>
    /\ UNCHANGED relaunched
    /\ UNCHANGED screenVars

\* line 49 on the next launch of the app: the module is loaded afresh and
\* initI18n() is called; calls suspended in the old process are gone
relaunch ==
    /\ initPc \in {"done", "crashed", "rejected"}
    /\ initPc' = "getItem"
    /\ savedLanguage' = Null
    /\ lng' = Null
    /\ language' = Null
    /\ fallbackLng' = Null
    /\ changing' = <<>>
    /\ relaunched' = TRUE
    /\ settledChoice' = IF changing = <<>> THEN settledChoice ELSE Null
    /\ UNCHANGED <<userLanguage, locales>>
    /\ UNCHANGED screenVars

-----------------------------------------------------------------------------
(* Values shown in toasts *)

\* a literal or server-provided string passed to showToast
Lit(s) == [kind |-> "text", text |-> s]
\* t(key) of useTranslation: the catalog entry of key in the active language
t(key) == [kind |-> "t", text |-> key]
\* the JavaScript value undefined passed as the message
Undefined == [kind |-> "undefined", text |-> ""]

NoToast == [type |-> "none", title |-> Lit(""), msg |-> Lit(""), action |-> FALSE]
showToast(msg, type, title, action) ==
    [type |-> type, title |-> title, msg |-> msg, action |-> action]
NoTitle == Lit("")


-----------------------------------------------------------------------------
(* Server responses *)

\* A JSON object is a sequence of entries [key, value] in insertion order with
\* distinct keys.  A key is [idx, name]: idx >= 0 for an array-index-like
\* property name ("0"), -1 for any other name.
ErrorKeys == { [idx |-> -1, name |-> "national_id"],
               [idx |-> -1, name |-> "phone_number"],
               [idx |-> 0, name |-> "0"] }
\* the message the server attaches to each field
ErrorText(k) ==
    CASE k.name = "national_id" -> "National ID already registered"
      [] k.name = "phone_number" -> "Phone number already registered"
      [] OTHER -> "Invalid value"
ErrorEntries == { [key |-> k, value |-> ErrorText(k)] : k \in ErrorKeys }
ErrorMaps ==
    { m \in UNION { [1..n -> ErrorEntries] : n \in 0..MaxErrors } :
        \A i, j \in 1..Len(m) : i # j => m[i].key # m[j].key }

\* message strings a server may put in response.data.message
ServerMessages == {"", "Registration closed"}

\* the property name the value undefined is coerced to
UndefinedKey == [idx |-> -1, name |-> "undefined"]

\* own-property enumeration order of a JavaScript object: index-like names in
\* ascending numeric order, then the other names in insertion order
OwnProperties(obj) ==
    SortSeq(SelectSeq(obj, LAMBDA e : e.key.idx >= 0),
            LAMBDA a, b : a.key.idx < b.key.idx)
      \o SelectSeq(obj, LAMBDA e : e.key.idx < 0)

\* FirstKey taking the first inserted key instead of the first enumerated one
FirstInsertedKey(obj) ==
    IF Len(obj) = 0 THEN UndefinedKey ELSE obj[1].key

\* Object.keys(obj)[0]
FirstKey(obj) ==
    IF Len(obj) = 0 THEN UndefinedKey ELSE OwnProperties(obj)[1].key

\* Object.values(obj)[0]
FirstValue(obj) ==
    IF Len(obj) = 0 THEN Undefined ELSE Lit(OwnProperties(obj)[1].value)

\* obj[key]
GetProperty(obj, key) ==
    IF \E i \in 1..Len(obj) : obj[i].key = key
    THEN Lit((CHOOSE e \in { obj[i] : i \in 1..Len(obj) } : e.key = key).value)
    ELSE Undefined

\* the error a rejected request is caught with: no response at all (network /
\* transport failure), or a response whose data may carry errors and message
NetworkError ==
    [response |-> FALSE, hasErrors |-> FALSE, errors |-> <<>>,
     hasMessage |-> FALSE, message |-> ""]
ResponseErrors ==
    { [response |-> TRUE, hasErrors |-> TRUE, errors |-> m,
       hasMessage |-> hm, message |-> IF hm THEN "Registration closed" ELSE ""] :
          m \in ErrorMaps, hm \in BOOLEAN }
    \cup
    { [response |-> TRUE, hasErrors |-> FALSE, errors |-> <<>>,
       hasMessage |-> hm, message |-> IF hm THEN s ELSE ""] :
          hm \in BOOLEAN, s \in ServerMessages }
Errors == {NetworkError} \cup ResponseErrors
\* the error a catch block received, with the operation op that threw it
Caught(error, op) ==
    [op |-> op, response |-> error.response, hasErrors |-> error.hasErrors,
     errors |-> error.errors, hasMessage |-> error.hasMessage,
     message |-> error.message]
\* the value of caught when the last step ran no catch block
NoCatch == Caught(NetworkError, "none")

\* error.response?.data?.errors is truthy (any object is, also the empty one)
HasErrors(error) == error.response /\ error.hasErrors
\* MessageOr with ?? in place of ||: only an absent message falls back
MessageOrNullish(error, fallback) ==
    IF error.response /\ error.hasMessage THEN Lit(error.message) ELSE fallback

\* error.response?.data?.message || fallback
MessageOr(error, fallback) ==
    IF error.response /\ error.hasMessage /\ error.message # ""
    THEN Lit(error.message)
    ELSE fallback

-----------------------------------------------------------------------------
(* Form fields *)

\* characters and lengths of the password values tried
PwChars == {"a", "b"}
MinPasswordLength == 6
PwLengths == {0, MinPasswordLength - 1, MinPasswordLength}
Passwords == { [i \in 1..n |-> c] : n \in PwLengths, c \in PwChars }
Texts == {"", "x"}

RegistrationScreens == {"SignUp", "SignUpLocalized", "PilgrimSignUp"}
\* the screens whose useEffect issues a fetch on mount
FetchingScreens == {"Communication", "ModeratorMessages", "EditProfile"}

EmptyForm ==
    [fullName |-> "", nationalId |-> "", phoneNumber |-> "",
     password |-> <<>>, confirmPassword |-> <<>>, code |-> <<>>,
     name |-> "", phone |-> ""]

\* which fields each screen's form has, with the values typed into them
FieldValues(scr, f) ==
    CASE scr \in RegistrationScreens /\ f \in {"fullName", "nationalId", "phoneNumber"} -> Texts
      [] scr \in RegistrationScreens /\ f = "password" -> Passwords
      [] scr = "PilgrimSignUp" /\ f = "confirmPassword" -> Passwords
      [] scr = "EditProfile" /\ f \in {"name", "phone"} -> Texts
      [] OTHER -> {}

FieldNames == DOMAIN EmptyForm

\* onChangeText of a TextInput: the useState setter of one field
onChangeText(f, v) ==
    /\ mounted /\ ~initialLoading
    /\ v \in FieldValues(screen, f)
    /\ form' = [form EXCEPT ![f] = v]
    /\ UNCHANGED <<screen, mounted, loading, toast, reqs, issued, authToken,
                   creds, saving, timers, nav>>
    /\ caught' = NoCatch
    /\ UNCHANGED <<i18nVars, listVars>>

\* api.post / api.put / api.delete / api.get: one more request in flight
Issue(kind, arg) ==
    /\ issued < MaxRequests + (IF screen \in FetchingScreens THEN 1 ELSE 0)
    /\ issued' = issued + 1
    /\ reqs' = reqs \cup {[id |-> issued + 1, kind |-> kind, arg |-> arg]}

\* a state setter of an unmounted component changes nothing
SetLoading(b) == loading' = IF mounted THEN b ELSE loading

-----------------------------------------------------------------------------
(* SignUpScreen (src/src/screens/SignUpScreen.tsx) *)

Replace(route, userId) == [op |-> "replace", route |-> route, userId |-> userId]

\* the record a registration request carries
RegisterBody(path) ==
    [path |-> path, full_name |-> form.fullName, national_id |-> form.nationalId,
     phone_number |-> form.phoneNumber, password |-> form.password]

\* SignUpDisabled for a button that is never disabled
NeverDisabled == FALSE

\* disabled={loading} of the Sign Up button, lines 165-171
SignUpDisabled == loading

\* handleSignUp with phoneNumber left out of the required-field test
handleSignUpNoPhoneCheck ==
    /\ screen = "SignUp" /\ mounted /\ ~loading
    /\ IF form.fullName = "" \/ form.nationalId = "" \/ form.password = <<>>
       THEN /\ toast' = showToast(Lit("Please fill in all required fields."),
                                  "error", Lit("Missing Fields"), FALSE)
            /\ UNCHANGED <<loading, reqs, issued>>
       ELSE /\ SetLoading(TRUE)
            /\ Issue("register", RegisterBody("/auth/register"))
            /\ UNCHANGED toast
    /\ UNCHANGED <<screen, mounted, form, authToken, creds, saving, timers, nav>>
    /\ caught' = NoCatch
    /\ UNCHANGED <<i18nVars, listVars>>

\* lines 21-37: the press handler up to the await of api.post
handleSignUp ==
    /\ screen = "SignUp" /\ mounted /\ ~SignUpDisabled
    /\ IF form.fullName = "" \/ form.nationalId = "" \/ form.phoneNumber = ""
          \/ form.password = <<>>
       THEN /\ toast' = showToast(Lit("Please fill in all required fields."),
                                  "error", Lit("Missing Fields"), FALSE)
            /\ UNCHANGED <<loading, reqs, issued>>
       ELSE /\ SetLoading(TRUE)
            /\ Issue("register", RegisterBody("/auth/register"))
            /\ UNCHANGED toast
    /\ UNCHANGED <<screen, mounted, form, authToken, creds, saving, timers, nav>>
    /\ caught' = NoCatch
    /\ UNCHANGED <<i18nVars, listVars>>

\* handleSignUpResolved without the setAuthToken call of line 42
handleSignUpResolvedNoToken ==
    /\ screen = "SignUp"
    /\ \E r \in reqs :
        /\ r.kind = "register"
        /\ reqs' = reqs \ {r}
        /\ toast' = showToast(Lit("Account created successfully!"), "success",
                              Lit("Welcome to Munawwara Care"), TRUE)
        /\ timers' = timers \cup {r.id}
    /\ SetLoading(FALSE)
    /\ UNCHANGED <<screen, mounted, form, issued, authToken, creds, saving, nav>>
    /\ caught' = NoCatch
    /\ UNCHANGED <<i18nVars, listVars>>

\* lines 39-55 and 68-70: the request resolved
handleSignUpResolved ==
    /\ screen = "SignUp"
    /\ \E r \in reqs :
        /\ r.kind = "register"
        /\ reqs' = reqs \ {r}
        /\ authToken' = r.id
        /\ toast' = showToast(Lit("Account created successfully!"), "success",
                              Lit("Welcome to Munawwara Care"), TRUE)
        /\ timers' = timers \cup {r.id}
    /\ SetLoading(FALSE)
    /\ UNCHANGED <<screen, mounted, form, issued, creds, saving, nav>>
    /\ caught' = NoCatch
    /\ UNCHANGED <<i18nVars, listVars>>

\* lines 56-70: the request rejected
handleSignUpRejected ==
    /\ screen = "SignUp"
    /\ \E r \in reqs, error \in Errors :
        /\ r.kind = "register"
        /\ reqs' = reqs \ {r}
        /\ caught' = Caught(error, r.kind)
        /\ toast' = IF HasErrors(error)
                    THEN showToast(GetProperty(error.errors, FirstKey(error.errors)),
                                   "error", Lit("Validation Error"), FALSE)
                    ELSE showToast(MessageOr(error, Lit("Something went wrong")),
                                   "error", Lit("Registration Failed"), FALSE)
    /\ SetLoading(FALSE)
    /\ UNCHANGED <<screen, mounted, form, issued, authToken, creds, saving, timers, nav>>
    /\ UNCHANGED <<i18nVars, listVars>>

\* line 55 (line 96 of the localized screen): the 2000 ms timer fires
autoNavigate ==
    /\ \E id \in timers :
        /\ timers' = timers \ {id}
        /\ nav' = Append(nav, Replace("PilgrimDashboard", id))
    /\ mounted' = FALSE
    /\ UNCHANGED <<screen, form, loading, toast, reqs, issued, authToken, creds, saving>>
    /\ caught' = NoCatch
    /\ UNCHANGED <<i18nVars, listVars>>

\* lines 47-51 (lines 88-92 of the localized screen): Continue of the success
\* toast is pressed and its onAction runs. The toast carries an action only
\* from the step that called setAuthToken with the same response, so the
\* user_id of the closure is the one of the token in place. The toast is
\* taken down by the press; nothing clears the timer.
toastAction ==
    /\ screen \in {"SignUp", "SignUpLocalized"}
    /\ toast.action
    /\ nav' = Append(nav, Replace("PilgrimDashboard", authToken))
    /\ toast' = NoToast
    /\ mounted' = FALSE
    /\ UNCHANGED <<screen, form, loading, reqs, issued, authToken, creds, saving, timers>>
    /\ caught' = NoCatch
    /\ UNCHANGED <<i18nVars, listVars>>

Navigate(route) == [op |-> "navigate", route |-> route, userId |-> 0]

\* line 175 (line 260 of the localized screen, line 157 of the pilgrim
\* registration): the Login link; the registration screen is taken off the
\* display and the text in its fields goes with it
navigateLogin ==
    /\ screen \in RegistrationScreens
    /\ mounted
    /\ nav' = Append(nav, Navigate("Login"))
    /\ mounted' = FALSE
    /\ form' = EmptyForm
    /\ UNCHANGED <<screen, loading, toast, reqs, issued, authToken, creds, saving, timers>>
    /\ caught' = NoCatch
    /\ UNCHANGED <<i18nVars, listVars>>

-----------------------------------------------------------------------------
(* Localized SignUpScreen (src/unnamed/part_003) *)

\* disabled={loading} of the sign-up button, lines 250-256
SignUpLocalizedDisabled == loading

\* lines 60-79
handleSignUpLocalized ==
    /\ screen = "SignUpLocalized" /\ mounted /\ ~SignUpLocalizedDisabled
    /\ IF form.fullName = "" \/ form.nationalId = "" \/ form.phoneNumber = ""
          \/ form.password = <<>>
       THEN /\ toast' = showToast(t("fill_required"), "error", t("missing_fields"), FALSE)
            /\ UNCHANGED <<loading, reqs, issued>>
       ELSE /\ SetLoading(TRUE)
            /\ Issue("register", RegisterBody("/auth/register"))
            /\ UNCHANGED toast
    /\ UNCHANGED <<screen, mounted, form, authToken, creds, saving, timers, nav>>
    /\ caught' = NoCatch
    /\ UNCHANGED <<i18nVars, listVars>>

\* lines 81-96 and 108-110
handleSignUpLocalizedResolved ==
    /\ screen = "SignUpLocalized"
    /\ \E r \in reqs :
        /\ r.kind = "register"
        /\ reqs' = reqs \ {r}
        /\ authToken' = r.id
        /\ toast' = showToast(t("account_created"), "success", t("welcome_munawwara"), TRUE)
        /\ timers' = timers \cup {r.id}
    /\ SetLoading(FALSE)
    /\ UNCHANGED <<screen, mounted, form, issued, creds, saving, nav>>
    /\ caught' = NoCatch
    /\ UNCHANGED <<i18nVars, listVars>>

\* lines 97-110
handleSignUpLocalizedRejected ==
    /\ screen = "SignUpLocalized"
    /\ \E r \in reqs, error \in Errors :
        /\ r.kind = "register"
        /\ reqs' = reqs \ {r}
        /\ caught' = Caught(error, r.kind)
        /\ toast' = IF HasErrors(error)
                    THEN showToast(GetProperty(error.errors, FirstKey(error.errors)),
                                   "error", t("validation_error"), FALSE)
                    ELSE showToast(MessageOr(error, t("registration_failed")),
                                   "error", t("registration_failed"), FALSE)
    /\ SetLoading(FALSE)
    /\ UNCHANGED <<screen, mounted, form, issued, authToken, creds, saving, timers, nav>>
    /\ UNCHANGED <<i18nVars, listVars>>

-----------------------------------------------------------------------------
(* PilgrimSignUpScreen (src/unnamed/part_000) *)

\* the AsyncStorage keys written on success, in the order of lines 53-56
CredentialKeys == <<"token", "role", "full_name", "user_id">>
NoCredentials == [k \in {"token", "role", "full_name", "user_id"} |-> 0]

\* disabled={loading} of the Register button, lines 145-149
RegisterDisabled == loading

\* handleRegister without the password confirmation test of lines 31-34
handleRegisterNoMatchCheck ==
    /\ screen = "PilgrimSignUp" /\ mounted /\ ~loading
    /\ IF form.fullName = "" \/ form.nationalId = "" \/ form.phoneNumber = ""
          \/ form.password = <<>> \/ form.confirmPassword = <<>>
       THEN /\ toast' = showToast(Lit("Please fill in all fields"), "error", NoTitle, FALSE)
            /\ UNCHANGED <<loading, reqs, issued>>
       ELSE IF Len(form.password) < MinPasswordLength
       THEN /\ toast' = showToast(Lit("Password must be at least 6 characters"),
                                  "error", NoTitle, FALSE)
            /\ UNCHANGED <<loading, reqs, issued>>
       ELSE /\ SetLoading(TRUE)
            /\ Issue("register", RegisterBody("/auth/register-public-pilgrim"))
            /\ UNCHANGED toast
    /\ UNCHANGED <<screen, mounted, form, authToken, creds, saving, timers, nav>>
    /\ caught' = NoCatch
    /\ UNCHANGED <<i18nVars, listVars>>

\* lines 25-48
handleRegister ==
    /\ screen = "PilgrimSignUp" /\ mounted /\ ~RegisterDisabled
    /\ IF form.fullName = "" \/ form.nationalId = "" \/ form.phoneNumber = ""
          \/ form.password = <<>> \/ form.confirmPassword = <<>>
       THEN /\ toast' = showToast(Lit("Please fill in all fields"), "error", NoTitle, FALSE)
            /\ UNCHANGED <<loading, reqs, issued>>
       ELSE IF form.password # form.confirmPassword
       THEN /\ toast' = showToast(Lit("Passwords do not match"), "error", NoTitle, FALSE)
            /\ UNCHANGED <<loading, reqs, issued>>
       ELSE IF Len(form.password) < MinPasswordLength
       THEN /\ toast' = showToast(Lit("Password must be at least 6 characters"),
                                  "error", NoTitle, FALSE)
            /\ UNCHANGED <<loading, reqs, issued>>
       ELSE /\ SetLoading(TRUE)
            /\ Issue("register", RegisterBody("/auth/register-public-pilgrim"))
            /\ UNCHANGED toast
    /\ UNCHANGED <<screen, mounted, form, authToken, creds, saving, timers, nav>>
    /\ caught' = NoCatch
    /\ UNCHANGED <<i18nVars, listVars>>

\* lines 43-53: the request resolved; the first AsyncStorage.setItem is awaited
handleRegisterResolved ==
    /\ screen = "PilgrimSignUp"
    /\ \E r \in reqs :
        /\ r.kind = "register"
        /\ reqs' = reqs \ {r}
        /\ saving' = saving \cup {[id |-> r.id, written |-> 0]}
    /\ UNCHANGED <<screen, mounted, form, loading, toast, issued, authToken, creds,
                   timers, nav>>
    /\ caught' = NoCatch
    /\ UNCHANGED <<i18nVars, listVars>>

\* lines 53-60 and 72-74: an awaited setItem resolved; after the fourth the
\* handler sets the token, shows the toast and replaces the screen
handleRegisterSetItem ==
    /\ \E s \in saving :
        LET k == s.written + 1 IN
        /\ creds' = [creds EXCEPT ![CredentialKeys[k]] = s.id]
        /\ IF k < Len(CredentialKeys)
           THEN /\ saving' = (saving \ {s}) \cup {[id |-> s.id, written |-> k]}
                /\ UNCHANGED <<authToken, toast, nav, mounted, loading>>
           ELSE /\ saving' = saving \ {s}
                /\ authToken' = s.id
                /\ toast' = showToast(Lit("Registration Successful!"), "success",
                                      NoTitle, FALSE)
                /\ nav' = Append(nav, Replace("PilgrimDashboard", s.id))
                /\ mounted' = FALSE
                /\ loading' = FALSE
    /\ UNCHANGED <<screen, form, reqs, issued, timers>>
    /\ caught' = NoCatch
    /\ UNCHANGED <<i18nVars, listVars>>

\* handleRegisterSetItemFailed removing the keys already written
handleRegisterSetItemFailedRollsBack ==
    /\ \E s \in saving : saving' = saving \ {s}
    /\ creds' = NoCredentials
    /\ toast' = showToast(MessageOr(NetworkError, Lit("Registration failed")),
                          "error", NoTitle, FALSE)
    /\ SetLoading(FALSE)
    /\ UNCHANGED <<screen, mounted, form, reqs, issued, authToken, timers, nav>>
    /\ caught' = Caught(NetworkError, "setItem")
    /\ UNCHANGED <<i18nVars, listVars>>

\* lines 62-74 after a setItem rejected: the error has no response
handleRegisterSetItemFailed ==
    /\ \E s \in saving : saving' = saving \ {s}
    /\ toast' = showToast(MessageOr(NetworkError, Lit("Registration failed")),
                          "error", NoTitle, FALSE)
    /\ SetLoading(FALSE)
    /\ UNCHANGED <<screen, mounted, form, reqs, issued, authToken, creds, timers, nav>>
    /\ caught' = Caught(NetworkError, "setItem")
    /\ UNCHANGED <<i18nVars, listVars>>

\* handleRegisterRejected without the finally block of lines 72-74
handleRegisterRejectedNoFinally ==
    /\ screen = "PilgrimSignUp"
    /\ \E r \in reqs, error \in Errors :
        /\ r.kind = "register"
        /\ reqs' = reqs \ {r}
        /\ caught' = Caught(error, r.kind)
        /\ toast' = IF HasErrors(error)
                    THEN showToast(FirstValue(error.errors), "error",
                                   Lit("Registration Failed"), FALSE)
                    ELSE showToast(MessageOr(error, Lit("Registration failed")),
                                   "error", NoTitle, FALSE)
    /\ UNCHANGED <<screen, mounted, form, loading, issued, authToken, creds, saving,
                   timers, nav>>
    /\ UNCHANGED <<i18nVars, listVars>>

\* lines 62-74: the request rejected
handleRegisterRejected ==
    /\ screen = "PilgrimSignUp"
    /\ \E r \in reqs, error \in Errors :
        /\ r.kind = "register"
        /\ reqs' = reqs \ {r}
        /\ caught' = Caught(error, r.kind)
        /\ toast' = IF HasErrors(error)
                    THEN showToast(FirstValue(error.errors), "error",
                                   Lit("Registration Failed"), FALSE)
                    ELSE showToast(MessageOr(error, Lit("Registration failed")),
                                   "error", NoTitle, FALSE)
    /\ SetLoading(FALSE)
    /\ UNCHANGED <<screen, mounted, form, issued, authToken, creds, saving, timers, nav>>
    /\ UNCHANGED <<i18nVars, listVars>>

-----------------------------------------------------------------------------
(* JoinGroupScreen (src/unnamed/part_002) *)

GroupCodeLength == 6
CodeChars == {"a", "A", "1"}
CodeLengths == {0, GroupCodeLength - 1, GroupCodeLength}
\* texts the user can type into the code input (maxLength = 6, line 70)
TypedCodes == { [i \in 1..n |-> c] : n \in CodeLengths, c \in CodeChars }

\* String.prototype.toUpperCase
toUpperCase(text) == [i \in 1..Len(text) |-> IF text[i] = "a" THEN "A" ELSE text[i]]

GoBack == [op |-> "goBack", route |-> "", userId |-> 0]
\* route.params?.userId of the mounted screen
RouteUserId == 7

\* line 69: onChangeText={(text) => setCode(text.toUpperCase())}
setCode(text) ==
    /\ screen = "JoinGroup" /\ mounted
    /\ form' = [form EXCEPT !.code = toUpperCase(text)]
    /\ caught' = NoCatch
    /\ UNCHANGED <<screen, mounted, loading, toast, reqs, issued, nav>>
    /\ UNCHANGED <<i18nVars, regVars, listVars>>

\* disabled={!code || loading} of the Join Group button, lines 75-79
JoinDisabled == form.code = <<>> \/ loading

\* handleJoin without the length test of lines 24-27
handleJoinAnyLength ==
    /\ screen = "JoinGroup" /\ mounted /\ ~(form.code = <<>> \/ loading)
    /\ SetLoading(TRUE)
    /\ Issue("joinGroup", [path |-> "/groups/join", group_code |-> form.code])
    /\ caught' = NoCatch
    /\ UNCHANGED <<screen, mounted, form, toast, nav>>
    /\ UNCHANGED <<i18nVars, regVars, listVars>>

\* lines 18-31
handleJoin ==
    /\ screen = "JoinGroup" /\ mounted /\ ~JoinDisabled
    /\ IF form.code = <<>>
       THEN /\ toast' = showToast(Lit("Please enter the group code"), "error", NoTitle, FALSE)
            /\ UNCHANGED <<loading, reqs, issued>>
       ELSE IF Len(form.code) # GroupCodeLength
       THEN /\ toast' = showToast(Lit("Code must be 6 characters"), "error", NoTitle, FALSE)
            /\ UNCHANGED <<loading, reqs, issued>>
       ELSE /\ SetLoading(TRUE)
            /\ Issue("joinGroup", [path |-> "/groups/join", group_code |-> form.code])
            /\ UNCHANGED toast
    /\ caught' = NoCatch
    /\ UNCHANGED <<screen, mounted, form, nav>>
    /\ UNCHANGED <<i18nVars, regVars, listVars>>

\* lines 31-36 and 41-43: the request resolved, with or without a message
handleJoinResolved ==
    /\ screen = "JoinGroup"
    /\ \E r \in reqs, hm \in BOOLEAN, m \in ServerMessages :
        /\ r.kind = "joinGroup"
        /\ reqs' = reqs \ {r}
        /\ toast' = showToast(IF hm /\ m # "" THEN Lit(m)
                              ELSE Lit("Joined group successfully!"),
                              "success", NoTitle, FALSE)
    /\ nav' = Append(nav, Replace("PilgrimDashboard", RouteUserId))
    /\ mounted' = FALSE
    /\ loading' = FALSE
    /\ caught' = NoCatch
    /\ UNCHANGED <<screen, form, issued>>
    /\ UNCHANGED <<i18nVars, regVars, listVars>>

\* handleJoinRejected posting the same body again instead of giving up
handleJoinRejectedRetries ==
    /\ screen = "JoinGroup"
    /\ issued < MaxRequests
    /\ \E r \in reqs, error \in Errors :
        /\ r.kind = "joinGroup"
        /\ reqs' = (reqs \ {r}) \cup {[id |-> issued + 1, kind |-> r.kind, arg |-> r.arg]}
        /\ caught' = Caught(error, r.kind)
    /\ issued' = issued + 1
    /\ UNCHANGED <<screen, mounted, form, loading, toast, nav>>
    /\ UNCHANGED <<i18nVars, regVars, listVars>>

\* lines 38-43: the request rejected
handleJoinRejected ==
    /\ screen = "JoinGroup"
    /\ \E r \in reqs, error \in Errors :
        /\ r.kind = "joinGroup"
        /\ reqs' = reqs \ {r}
        /\ caught' = Caught(error, r.kind)
        /\ toast' = showToast(MessageOr(error, Lit("Failed to join group")),
                              "error", NoTitle, FALSE)
    /\ SetLoading(FALSE)
    /\ UNCHANGED <<screen, mounted, form, issued, nav>>
    /\ UNCHANGED <<i18nVars, regVars, listVars>>

\* the header back button of JoinGroup (line 49), CommunicationScreen (line
\* 82), ModeratorMessagesScreen (line 140) and Cancel of EditProfile (line 133)
goBack ==
    /\ screen \in {"JoinGroup", "Communication", "ModeratorMessages", "EditProfile"}
    /\ mounted /\ ~initialLoading /\ alerts = <<>>
    /\ mounted' = FALSE
    /\ nav' = Append(nav, GoBack)
    /\ caught' = NoCatch
    /\ UNCHANGED <<screen, form, loading, toast, reqs, issued>>
    /\ UNCHANGED <<i18nVars, regVars, listVars>>

-----------------------------------------------------------------------------
(* EditProfileScreen (src/src/screens/EditProfileScreen.tsx) *)

\* response.data of GET /auth/me: absent, or a profile
Profiles == [full_name : Texts, phone_number : Texts]

\* lines 31-49 and 53-55: the fetch issued on mount resolved
fetchProfileResolved ==
    /\ screen = "EditProfile"
    /\ \E r \in reqs :
        /\ r.kind = "fetchProfile"
        /\ reqs' = reqs \ {r}
        /\ \/ UNCHANGED form
           \/ \E data \in Profiles :
                form' = IF mounted
                        THEN [form EXCEPT !.name = data.full_name,
                                          !.phone = data.phone_number]
                        ELSE form
    /\ initialLoading' = IF mounted THEN FALSE ELSE initialLoading
    /\ caught' = NoCatch
    /\ UNCHANGED <<screen, mounted, loading, toast, issued, nav>>
    /\ UNCHANGED <<i18nVars, regVars, sessions, messages, alerts, histVars>>

\* lines 50-55: the fetch rejected
fetchProfileRejected ==
    /\ screen = "EditProfile"
    /\ \E r \in reqs, error \in Errors :
        /\ r.kind = "fetchProfile"
        /\ reqs' = reqs \ {r}
        /\ caught' = Caught(error, r.kind)
    /\ toast' = showToast(t("failed_load_profile"), "error", NoTitle, FALSE)
    /\ initialLoading' = IF mounted THEN FALSE ELSE initialLoading
    /\ UNCHANGED <<screen, mounted, form, loading, issued, nav>>
    /\ UNCHANGED <<i18nVars, regVars, sessions, messages, alerts, histVars>>

\* disabled={loading} of the save button, line 137
SaveDisabled == loading

\* lines 71-107; the form is rendered only when initialLoading is false
handleSave ==
    /\ screen = "EditProfile" /\ mounted /\ ~initialLoading /\ ~SaveDisabled
    /\ IF form.name = "" \/ form.phone = ""
       THEN /\ toast' = showToast(t("name_phone_required"), "error", NoTitle, FALSE)
            /\ UNCHANGED <<loading, reqs, issued>>
       ELSE /\ SetLoading(TRUE)
            /\ Issue("updateProfile", [path |-> "/auth/update-profile",
                                       full_name |-> form.name,
                                       phone_number |-> form.phone])
            /\ UNCHANGED toast
    /\ caught' = NoCatch
    /\ UNCHANGED <<screen, mounted, form, nav>>
    /\ UNCHANGED <<i18nVars, regVars, listVars>>

\* lines 109-110 and 114-116: the PUT resolved
handleSaveResolved ==
    /\ screen = "EditProfile"
    /\ \E r \in reqs :
        /\ r.kind = "updateProfile"
        /\ reqs' = reqs \ {r}
    /\ toast' = showToast(t("profile_updated_success"), "success", NoTitle, FALSE)
    /\ nav' = Append(nav, GoBack)
    /\ mounted' = FALSE
    /\ loading' = FALSE
    /\ caught' = NoCatch
    /\ UNCHANGED <<screen, form, issued>>
    /\ UNCHANGED <<i18nVars, regVars, listVars>>

\* handleSaveRejected leaving the form as a successful save does
handleSaveRejectedGoesBack ==
    /\ screen = "EditProfile"
    /\ \E r \in reqs, error \in Errors :
        /\ r.kind = "updateProfile"
        /\ reqs' = reqs \ {r}
        /\ caught' = Caught(error, r.kind)
        /\ toast' = showToast(MessageOr(error, t("failed_update_profile")),
                              "error", NoTitle, FALSE)
    /\ nav' = Append(nav, GoBack)
    /\ mounted' = FALSE
    /\ loading' = FALSE
    /\ UNCHANGED <<screen, form, issued>>
    /\ UNCHANGED <<i18nVars, regVars, listVars>>

\* lines 111-116: the PUT rejected
handleSaveRejected ==
    /\ screen = "EditProfile"
    /\ \E r \in reqs, error \in Errors :
        /\ r.kind = "updateProfile"
        /\ reqs' = reqs \ {r}
        /\ caught' = Caught(error, r.kind)
        /\ toast' = showToast(MessageOr(error, t("failed_update_profile")),
                              "error", NoTitle, FALSE)
    /\ SetLoading(FALSE)
    /\ UNCHANGED <<screen, mounted, form, issued, nav>>
    /\ UNCHANGED <<i18nVars, regVars, listVars>>

-----------------------------------------------------------------------------
(* CommunicationScreen (src/unnamed/part_001) *)

SessionIds == {1, 2}
\* response.data.data of GET /communication/sessions/{groupId}
SessionLists ==
    { l \in UNION { [1..n -> SessionIds] : n \in 0..MaxItems } :
        \A i, j \in 1..Len(l) : i # j => l[i] # l[j] }

\* lines 33-35 called by onRefresh of the RefreshControl (line 94), which
\* takes no pull while refreshing={loading} is true
fetchSessions ==
    /\ screen = "Communication" /\ mounted /\ ~loading
    /\ Issue("fetchSessions", [path |-> "/communication/sessions"])
    /\ caught' = NoCatch
    /\ UNCHANGED <<screen, mounted, form, loading, toast, nav>>
    /\ UNCHANGED <<i18nVars, regVars, listVars>>

\* lines 35-36 and 39-41
fetchSessionsResolved ==
    /\ screen = "Communication"
    /\ \E r \in reqs, data \in SessionLists :
        /\ r.kind = "fetchSessions"
        /\ reqs' = reqs \ {r}
        /\ sessions' = IF mounted THEN data ELSE sessions
        /\ fetched' = IF r.id > fetched.id THEN [id |-> r.id, data |-> data]
                                           ELSE fetched
    /\ SetLoading(FALSE)
    /\ caught' = NoCatch
    /\ UNCHANGED <<screen, mounted, form, toast, issued, nav>>
    /\ UNCHANGED <<i18nVars, regVars, messages, alerts, initialLoading, deleted>>

\* lines 37-41: console.error only
fetchSessionsRejected ==
    /\ screen = "Communication"
    /\ \E r \in reqs, error \in Errors :
        /\ r.kind = "fetchSessions"
        /\ reqs' = reqs \ {r}
        /\ caught' = Caught(error, r.kind)
    /\ SetLoading(FALSE)
    /\ UNCHANGED <<screen, mounted, form, toast, issued, nav>>
    /\ UNCHANGED <<i18nVars, regVars, listVars>>

\* lines 44-46, pressed on the Join button of a rendered session (lines 70-75)
handleJoinSession(sessionId) ==
    /\ screen = "Communication" /\ mounted
    /\ \E i \in 1..Len(sessions) : sessions[i] = sessionId
    /\ Issue("joinSession", [path |-> "/communication/join-session",
                             session_id |-> sessionId])
    /\ caught' = NoCatch
    /\ UNCHANGED <<screen, mounted, form, loading, toast, nav>>
    /\ UNCHANGED <<i18nVars, regVars, listVars>>

\* handleJoinSessionResolved taking the joined session off the list
handleJoinSessionResolvedRemoves ==
    /\ screen = "Communication"
    /\ \E r \in reqs :
        /\ r.kind = "joinSession"
        /\ reqs' = reqs \ {r}
        /\ sessions' = SelectSeq(sessions, LAMBDA sid : sid # r.arg.session_id)
    /\ toast' = showToast(Lit("Joined session (Simulation)"), "success", NoTitle, FALSE)
    /\ caught' = NoCatch
    /\ UNCHANGED <<screen, mounted, form, loading, issued, nav>>
    /\ UNCHANGED <<i18nVars, regVars, messages, alerts, initialLoading, histVars>>

\* line 47
handleJoinSessionResolved ==
    /\ screen = "Communication"
    /\ \E r \in reqs :
        /\ r.kind = "joinSession"
        /\ reqs' = reqs \ {r}
    /\ toast' = showToast(Lit("Joined session (Simulation)"), "success", NoTitle, FALSE)
    /\ caught' = NoCatch
    /\ UNCHANGED <<screen, mounted, form, loading, issued, nav>>
    /\ UNCHANGED <<i18nVars, regVars, listVars>>

\* lines 49-51
handleJoinSessionRejected ==
    /\ screen = "Communication"
    /\ \E r \in reqs, error \in Errors :
        /\ r.kind = "joinSession"
        /\ reqs' = reqs \ {r}
        /\ caught' = Caught(error, r.kind)
    /\ toast' = showToast(Lit("Failed to join session"), "error", NoTitle, FALSE)
    /\ UNCHANGED <<screen, mounted, form, loading, issued, nav>>
    /\ UNCHANGED <<i18nVars, regVars, listVars>>

-----------------------------------------------------------------------------
(* ModeratorMessagesScreen (src/src/screens/ModeratorMessagesScreen.tsx) *)

\* the messages of the group on the server: _id and created_at
ServerMessagesOfGroup ==
    { [id |-> 1, created_at |-> 1], [id |-> 2, created_at |-> 2],
      [id |-> 3, created_at |-> 2] }
\* response.data.data of GET /messages/group/{groupId}, in any order
MessageLists ==
    { l \in UNION { [1..n -> ServerMessagesOfGroup] : n \in 0..MaxItems } :
        \A i, j \in 1..Len(l) : i # j => l[i] # l[j] }

\* Array.prototype.sort with the comparator of lines 42-44: newest first,
\* entries of equal time in their original order (the sort is stable)
RECURSIVE InsertNewestFirst(_, _)
InsertNewestFirst(x, sorted) ==
    IF sorted = <<>> THEN <<x>>
    ELSE IF Head(sorted).created_at > x.created_at
         THEN <<Head(sorted)>> \o InsertNewestFirst(x, Tail(sorted))
         ELSE <<x>> \o sorted
RECURSIVE SortNewestFirst(_)
SortNewestFirst(list) ==
    IF list = <<>> THEN <<>>
    ELSE InsertNewestFirst(Head(list), SortNewestFirst(Tail(list)))

ConfirmAlert(messageId) == [kind |-> "confirm", id |-> messageId]
ErrorAlert == [kind |-> "error", id |-> 0]

\* lines 39-45 and 48-50: the fetch issued on mount resolved
fetchMessagesResolved ==
    /\ screen = "ModeratorMessages"
    /\ \E r \in reqs, data \in MessageLists :
        /\ r.kind = "fetchMessages"
        /\ reqs' = reqs \ {r}
        /\ messages' = IF mounted THEN SortNewestFirst(data) ELSE messages
        /\ fetched' = [id |-> r.id, data |-> SortNewestFirst(data)]
    /\ SetLoading(FALSE)
    /\ caught' = NoCatch
    /\ UNCHANGED <<screen, mounted, form, toast, issued, nav>>
    /\ UNCHANGED <<i18nVars, regVars, sessions, alerts, initialLoading, deleted>>

\* lines 46-50: console.error only
fetchMessagesRejected ==
    /\ screen = "ModeratorMessages"
    /\ \E r \in reqs, error \in Errors :
        /\ r.kind = "fetchMessages"
        /\ reqs' = reqs \ {r}
        /\ caught' = Caught(error, r.kind)
    /\ SetLoading(FALSE)
    /\ UNCHANGED <<screen, mounted, form, toast, issued, nav>>
    /\ UNCHANGED <<i18nVars, regVars, listVars>>

\* handleDelete issuing the DELETE at once, without the dialog
handleDeleteUnconfirmed(messageId) ==
    /\ screen = "ModeratorMessages" /\ mounted /\ ~loading /\ alerts = <<>>
    /\ \E i \in 1..Len(messages) : messages[i].id = messageId
    /\ Issue("deleteMessage", [path |-> "/messages", id |-> messageId])
    /\ caught' = NoCatch
    /\ UNCHANGED <<screen, mounted, form, loading, toast, nav>>
    /\ UNCHANGED <<i18nVars, regVars, listVars>>

\* lines 53-58, pressed on the trash button of a rendered message (lines
\* 105-110); the list is rendered only when loading is false (line 149)
handleDelete(messageId) ==
    /\ screen = "ModeratorMessages" /\ mounted /\ ~loading /\ alerts = <<>>
    /\ \E i \in 1..Len(messages) : messages[i].id = messageId
    /\ alerts' = Append(alerts, ConfirmAlert(messageId))
    /\ caught' = NoCatch
    /\ UNCHANGED <<screen, mounted, form, loading, toast, reqs, issued, nav>>
    /\ UNCHANGED <<i18nVars, regVars, sessions, messages, initialLoading, histVars>>

\* line 58: the Cancel button of the dialog on top
alertCancel ==
    /\ alerts # <<>> /\ alerts[Len(alerts)].kind = "confirm"
    /\ alerts' = SubSeq(alerts, 1, Len(alerts) - 1)
    /\ caught' = NoCatch
    /\ UNCHANGED <<screen, mounted, form, loading, toast, reqs, issued, nav>>
    /\ UNCHANGED <<i18nVars, regVars, sessions, messages, initialLoading, histVars>>

\* alertDelete removing the message from the list as the request is issued
alertDeleteSpeculative ==
    /\ alerts # <<>> /\ alerts[Len(alerts)].kind = "confirm"
    /\ alerts' = SubSeq(alerts, 1, Len(alerts) - 1)
    /\ Issue("deleteMessage", [path |-> "/messages", id |-> alerts[Len(alerts)].id])
    /\ messages' = SelectSeq(messages, LAMBDA msg : msg.id # alerts[Len(alerts)].id)
    /\ caught' = NoCatch
    /\ UNCHANGED <<screen, mounted, form, loading, toast, nav>>
    /\ UNCHANGED <<i18nVars, regVars, sessions, initialLoading, histVars>>

\* lines 60-64: the Delete button of the dialog on top
alertDelete ==
    /\ alerts # <<>> /\ alerts[Len(alerts)].kind = "confirm"
    /\ alerts' = SubSeq(alerts, 1, Len(alerts) - 1)
    /\ Issue("deleteMessage", [path |-> "/messages", id |-> alerts[Len(alerts)].id])
    /\ caught' = NoCatch
    /\ UNCHANGED <<screen, mounted, form, loading, toast, nav>>
    /\ UNCHANGED <<i18nVars, regVars, sessions, messages, initialLoading, histVars>>

\* handleDeleteResolved dropping the first entry of the list, whichever it is
handleDeleteResolvedDropsFirst ==
    /\ screen = "ModeratorMessages"
    /\ \E r \in reqs :
        /\ r.kind = "deleteMessage"
        /\ reqs' = reqs \ {r}
        /\ messages' = IF mounted /\ messages # <<>> THEN Tail(messages) ELSE messages
        /\ deleted' = deleted \cup {r.arg.id}
    /\ caught' = NoCatch
    /\ UNCHANGED <<screen, mounted, form, loading, toast, issued, nav>>
    /\ UNCHANGED <<i18nVars, regVars, sessions, alerts, initialLoading, fetched>>

\* handleDeleteResolved filtering the list the fetch stored instead of the
\* list in place: setMessages(messages.filter(...)) from a stale closure
handleDeleteResolvedStaleList ==
    /\ screen = "ModeratorMessages"
    /\ \E r \in reqs :
        /\ r.kind = "deleteMessage"
        /\ reqs' = reqs \ {r}
        /\ messages' = IF mounted
                       THEN SelectSeq(fetched.data, LAMBDA msg : msg.id # r.arg.id)
                       ELSE messages
        /\ deleted' = deleted \cup {r.arg.id}
    /\ caught' = NoCatch
    /\ UNCHANGED <<screen, mounted, form, loading, toast, issued, nav>>
    /\ UNCHANGED <<i18nVars, regVars, sessions, alerts, initialLoading, fetched>>

\* line 65: the DELETE resolved
handleDeleteResolved ==
    /\ screen = "ModeratorMessages"
    /\ \E r \in reqs :
        /\ r.kind = "deleteMessage"
        /\ reqs' = reqs \ {r}
        /\ messages' = IF mounted
                       THEN SelectSeq(messages, LAMBDA msg : msg.id # r.arg.id)
                       ELSE messages
        /\ deleted' = deleted \cup {r.arg.id}
    /\ caught' = NoCatch
    /\ UNCHANGED <<screen, mounted, form, loading, toast, issued, nav>>
    /\ UNCHANGED <<i18nVars, regVars, sessions, alerts, initialLoading, fetched>>

\* lines 66-69: the DELETE rejected
handleDeleteRejected ==
    /\ screen = "ModeratorMessages"
    /\ \E r \in reqs, error \in Errors :
        /\ r.kind = "deleteMessage"
        /\ reqs' = reqs \ {r}
        /\ caught' = Caught(error, r.kind)
    /\ alerts' = Append(alerts, ErrorAlert)
    /\ UNCHANGED <<screen, mounted, form, loading, toast, issued, nav>>
    /\ UNCHANGED <<i18nVars, regVars, sessions, messages, initialLoading, histVars>>

\* the OK button of the error dialog on top
alertOk ==
    /\ alerts # <<>> /\ alerts[Len(alerts)].kind = "error"
    /\ alerts' = SubSeq(alerts, 1, Len(alerts) - 1)
    /\ caught' = NoCatch
    /\ UNCHANGED <<screen, mounted, form, loading, toast, reqs, issued, nav>>
    /\ UNCHANGED <<i18nVars, regVars, sessions, messages, initialLoading, histVars>>

-----------------------------------------------------------------------------
(* Specifications *)

Screens == RegistrationScreens
             \cup {"JoinGroup", "EditProfile", "Communication", "ModeratorMessages"}

\* the localization module at import time: initI18n() has been called
LocalizationStarting ==
    /\ userLanguage \in StoredValues
    /\ locales \in LocaleLists
    /\ initPc = "getItem"
    /\ savedLanguage = Null
    /\ lng = Null
    /\ fallbackLng = Null
    /\ language = Null
    /\ changing = <<>>
    /\ settledChoice = Null
    /\ relaunched = FALSE

\* the localization module after a startup on an 'en' device
LocalizationSettled ==
    /\ userLanguage = Null
    /\ locales = <<"en">>
    /\ initPc = "done"
    /\ savedLanguage = "en"
    /\ lng = "en"
    /\ fallbackLng = "en"
    /\ language = "en"
    /\ changing = <<>>
    /\ settledChoice = Null
    /\ relaunched = FALSE

\* the request a screen's useEffect issues on mount, if any
MountRequests(scr) ==
    CASE scr = "Communication" ->
            {[id |-> 1, kind |-> "fetchSessions", arg |-> [path |-> "/communication/sessions"]]}
      [] scr = "ModeratorMessages" ->
            {[id |-> 1, kind |-> "fetchMessages", arg |-> [path |-> "/messages/group"]]}
      [] scr = "EditProfile" ->
            {[id |-> 1, kind |-> "fetchProfile", arg |-> [path |-> "/auth/me"]]}
      [] OTHER -> {}

\* the useState initial values of screen scr and the effect of its useEffect
ScreenMounted(scr) ==
    /\ screen = scr
    /\ mounted = TRUE
    /\ form = EmptyForm
    /\ loading = (scr \in {"Communication", "ModeratorMessages"})
    /\ toast = NoToast
    /\ reqs = MountRequests(scr)
    /\ issued = Cardinality(MountRequests(scr))
    /\ authToken = 0
    /\ creds = NoCredentials
    /\ saving = {}
    /\ timers = {}
    /\ nav = <<>>
    /\ caught = NoCatch
    /\ sessions = <<>>
    /\ messages = <<>>
    /\ alerts = <<>>
    /\ initialLoading = (scr = "EditProfile")
    /\ fetched = [id |-> 0, data |-> <<>>]
    /\ deleted = {}

\* a screen right after its first render
Init == LocalizationSettled /\ \E scr \in Screens : ScreenMounted(scr)

Next ==
    \/ \E f \in FieldNames : \E v \in FieldValues(screen, f) : onChangeText(f, v)
    \/ handleSignUp
    \/ handleSignUpResolved
    \/ handleSignUpRejected
    \/ autoNavigate
    \/ toastAction
    \/ navigateLogin
    \/ handleSignUpLocalized
    \/ handleSignUpLocalizedResolved
    \/ handleSignUpLocalizedRejected
    \/ handleRegister
    \/ handleRegisterResolved
    \/ handleRegisterSetItem
    \/ handleRegisterSetItemFailed
    \/ handleRegisterRejected
    \/ \E text \in TypedCodes : setCode(text)
    \/ handleJoin
    \/ handleJoinResolved
    \/ handleJoinRejected
    \/ goBack
    \/ fetchProfileResolved
    \/ fetchProfileRejected
    \/ handleSave
    \/ handleSaveResolved
    \/ handleSaveRejected
    \/ fetchSessions
    \/ fetchSessionsResolved
    \/ fetchSessionsRejected
    \/ \E sessionId \in SessionIds : handleJoinSession(sessionId)
    \/ handleJoinSessionResolved
    \/ handleJoinSessionRejected
    \/ fetchMessagesResolved
    \/ fetchMessagesRejected
    \/ \E m \in ServerMessagesOfGroup : handleDelete(m.id)
    \/ alertCancel
    \/ alertDelete
    \/ handleDeleteResolved
    \/ handleDeleteRejected
    \/ alertOk

Spec == Init /\ [][Next]_vars

\* application startup before any screen is mounted
InitI18n == LocalizationStarting /\ ScreenMounted("None")

NextI18n ==
    \/ initI18nGetItem
    \/ initI18nGetItemFailed
    \/ initI18n
    \/ \E lang \in PickedLanguages : handleLanguageChange(lang)
    \/ changeLanguageSetItem
    \/ changeLanguageSetItemFailed
    \/ changeLanguage
    \/ relaunch

SpecI18n == InitI18n /\ [][NextI18n]_vars

-----------------------------------------------------------------------------
(* Startup language resolution *)

SupportedLanguages == {"en", "ar", "ur", "fr", "id", "tr"}

\* the fallback chain of the contract: the persisted choice if present and
\* supported, else the device locale if supported, else 'en'
ReferenceLanguage(persisted, locs) ==
    IF persisted \in SupportedLanguages THEN persisted
    ELSE IF Len(locs) > 0 /\ locs[1] \in SupportedLanguages THEN locs[1]
    ELSE "en"

\* C1: when startup resolution has finished, the active language equals the
\* reference fallback chain applied to the persisted value and the device
\* locale, and is a member of the supported set.
C1_StartupFollowsFallbackChain ==
    initPc = "done" =>
        /\ lng = ReferenceLanguage(savedLanguage, locales)
        /\ lng \in SupportedLanguages

\* C2: with a supported code persisted, startup finishes with that code as
\* the active language, whatever the device locale list is.
C2_PersistedChoiceWins ==
    (initPc \in {"done", "crashed"} /\ savedLanguage \in SupportedLanguages) =>
        (initPc = "done" /\ lng = savedLanguage)

\* C2 witness: Arabic persisted on a device whose first locale is French.
C2_Witness ==
    /\ initPc = "done"
    /\ savedLanguage = "ar"
    /\ Len(locales) > 0 /\ locales[1] = "fr"
    /\ lng = "ar"

\* C3: with nothing persisted and a first device locale that is unsupported
\* or has no language code, startup resolves to 'en'.
C3_DefaultWhenNothingApplies ==
    (/\ initPc \in {"done", "crashed"}
     /\ savedLanguage = Null
     /\ Len(locales) > 0
     /\ locales[1] \notin SupportedLanguages) =>
        (initPc = "done" /\ lng = "en")

\* C3 witness: nothing persisted, the device reports German.
C3_Witness ==
    /\ initPc = "done"
    /\ userLanguage = Null /\ savedLanguage = Null
    /\ Len(locales) > 0 /\ locales[1] = "de"
    /\ lng = "en"

-----------------------------------------------------------------------------
(* Registration: local validation *)

\* a required field of the mounted registration form is empty
RequiredFieldEmpty ==
    \/ form.fullName = "" \/ form.nationalId = "" \/ form.phoneNumber = ""
    \/ form.password = <<>>
    \/ (screen = "PilgrimSignUp" /\ form.confirmPassword = <<>>)

\* a press of the submit control that the screen accepts
SubmitPress == handleSignUp \/ handleSignUpLocalized \/ handleRegister

\* registration requests in flight
RegistrationsInFlight == { r \in reqs : r.kind = "register" }

\* C4: in a registration screen with a required field empty no step issues a
\* registration request, and a submit press leaves loading false and shows an
\* error toast.
C4_EmptyFieldNeverPosts ==
    [][ (screen \in RegistrationScreens /\ RequiredFieldEmpty) =>
           /\ issued' = issued
           /\ RegistrationsInFlight' \subseteq RegistrationsInFlight
           /\ (SubmitPress => (~loading' /\ toast'.type = "error")) ]_vars

\* C4 witness: the pilgrim form was submitted with only the confirmation empty.
C4_Witness ==
    /\ screen = "PilgrimSignUp" /\ mounted
    /\ form.fullName # "" /\ form.nationalId # "" /\ form.phoneNumber # ""
    /\ Len(form.password) = MinPasswordLength /\ form.confirmPassword = <<>>
    /\ toast = showToast(Lit("Please fill in all fields"), "error", NoTitle, FALSE)
    /\ issued = 0 /\ ~loading

\* C5: in the public pilgrim screen no step issues a request while password
\* and confirmPassword differ.
C5_MismatchNeverPosts ==
    [][ (screen = "PilgrimSignUp" /\ form.password # form.confirmPassword) =>
           /\ issued' = issued
           /\ RegistrationsInFlight' \subseteq RegistrationsInFlight ]_vars

\* C5 witness: two different six-character passwords were submitted.
C5_Witness ==
    /\ screen = "PilgrimSignUp" /\ mounted
    /\ form.fullName # "" /\ form.nationalId # "" /\ form.phoneNumber # ""
    /\ Len(form.password) = MinPasswordLength
    /\ Len(form.confirmPassword) = MinPasswordLength
    /\ form.password # form.confirmPassword
    /\ toast = showToast(Lit("Passwords do not match"), "error", NoTitle, FALSE)
    /\ issued = 0 /\ ~loading

\* C6: in every registration screen no step issues a request while the
\* password is non-empty and shorter than six characters.
C6_ShortPasswordNeverPosts ==
    [][ (/\ screen \in RegistrationScreens
         /\ form.password # <<>>
         /\ Len(form.password) < MinPasswordLength) =>
           /\ issued' = issued
           /\ RegistrationsInFlight' \subseteq RegistrationsInFlight ]_vars

\* C7: a registration screen never has two registration requests in flight,
\* and while mounted it is loading exactly when one call (the request or the
\* credential writes that follow it) is outstanding.
C7_OneRegistrationInFlight ==
    screen \in RegistrationScreens =>
        /\ Cardinality(RegistrationsInFlight) <= 1
        /\ mounted =>
             (loading <=> Cardinality(RegistrationsInFlight) + Cardinality(saving) = 1)

\* C7 witness: a second submit is in flight after the first one failed.
C7_Witness ==
    /\ screen = "SignUp" /\ mounted /\ loading
    /\ issued = 2
    /\ Cardinality(RegistrationsInFlight) = 1

-----------------------------------------------------------------------------
(* Registration: error display *)

\* e comes before f in the iteration order of a JSON object m: index-like
\* names ascending, then the remaining names as inserted
Precedes(m, e, f) ==
    \/ e.key.idx >= 0 /\ f.key.idx >= 0 /\ e.key.idx < f.key.idx
    \/ e.key.idx >= 0 /\ f.key.idx < 0
    \/ /\ e.key.idx < 0 /\ f.key.idx < 0
       /\ \E i, j \in 1..Len(m) : i < j /\ m[i] = e /\ m[j] = f

FirstEntry(m) ==
    CHOOSE e \in { m[i] : i \in 1..Len(m) } :
        \A f \in { m[i] : i \in 1..Len(m) } \ {e} : Precedes(m, e, f)

\* C9: after a registration request failed with a non-empty error map, the
\* toast is an error toast whose message is the value of the map's first entry
\* in iteration order.
C9_FirstErrorShown ==
    (/\ screen \in RegistrationScreens
     /\ caught # NoCatch
     /\ HasErrors(caught)
     /\ Len(caught.errors) > 0) =>
        /\ toast.type = "error"
        /\ toast.msg = Lit(FirstEntry(caught.errors).value)

\* C9 witness: the map lists phone_number before the index-like name "0", so
\* the first entry in iteration order is not the first one inserted.
C9_Witness ==
    /\ screen = "SignUp"
    /\ caught # NoCatch /\ HasErrors(caught)
    /\ Len(caught.errors) = 2
    /\ caught.errors[1].key.name = "phone_number"
    /\ caught.errors[2].key.name = "0"
    /\ toast.msg = Lit(caught.errors[2].value)

\* the fixed message each screen shows when the server gave none
GenericFallback(scr) ==
    CASE scr = "SignUp" -> Lit("Something went wrong")
      [] scr = "SignUpLocalized" -> t("registration_failed")
      [] scr = "PilgrimSignUp" -> Lit("Registration failed")
      [] scr = "JoinGroup" -> Lit("Failed to join group")
      [] scr = "EditProfile" -> t("failed_update_profile")

\* the last step caught the failure of a registration, join-group or
\* profile-save request whose error carries no error map
UnstructuredFailure ==
    /\ caught.op \in {"register", "joinGroup", "updateProfile"}
    /\ ~HasErrors(caught)

\* C10 as stated: after such a failure the toast shows the response's message
\* string unchanged whenever the response carries one, and the generic
\* fallback when there is no response.
C10_MessageShownUnchanged ==
    UnstructuredFailure =>
        /\ (caught.response /\ caught.hasMessage) => toast.msg = Lit(caught.message)
        /\ ~caught.response => toast.msg = GenericFallback(screen)

\* C10 amended: after such a failure the toast is an error toast showing the
\* response's message string unchanged when it is non-empty, and the screen's
\* generic fallback when the message is empty or absent or there is no
\* response.
C10_NonEmptyMessageOrFallback ==
    UnstructuredFailure =>
        /\ toast.type = "error"
        /\ toast.msg = IF caught.response /\ caught.hasMessage /\ caught.message # ""
                       THEN Lit(caught.message)
                       ELSE GenericFallback(screen)

\* C10 witness: join-group failed with an empty message string and the
\* fallback is on display.
C10_Witness ==
    /\ screen = "JoinGroup"
    /\ caught.op = "joinGroup"
    /\ caught.response /\ caught.hasMessage /\ caught.message = ""
    /\ toast.msg = Lit("Failed to join group")
    /\ ~loading

-----------------------------------------------------------------------------
(* One request per screen action *)

ActionKinds == {"register", "updateProfile", "joinGroup", "joinSession", "deleteMessage"}

\* C8: of every screen action at most one request is in flight.
C8_OneRequestPerAction ==
    \A kind \in ActionKinds : Cardinality({ r \in reqs : r.kind = kind }) <= 1

-----------------------------------------------------------------------------
(* Message deletion *)

\* list without the entries of identifier id, the others in their order
RECURSIVE WithoutId(_, _)
WithoutId(list, id) ==
    IF list = <<>> THEN <<>>
    ELSE IF Head(list).id = id THEN WithoutId(Tail(list), id)
    ELSE <<Head(list)>> \o WithoutId(Tail(list), id)

\* the dialog on top asks to confirm the deletion of a message
ConfirmOnTop == alerts # <<>> /\ alerts[Len(alerts)].kind = "confirm"

\* this step ran the continuation of request r after the server confirmed it
ServerConfirmed(r) == r \in reqs /\ r \notin reqs' /\ caught' = NoCatch

\* C11: a step in which the server confirmed DELETE of message m turns the
\* rendered list into the previous list without the entry of identifier m, the
\* other entries in the same order; a step in which the user confirmed the
\* dialog for m issues exactly one request, DELETE /messages/{m}.
C11_DeleteRemovesExactlyThat ==
    [][ /\ \A r \in reqs :
            (r.kind = "deleteMessage" /\ ServerConfirmed(r) /\ mounted) =>
                messages' = WithoutId(messages, r.arg.id)
        /\ (ConfirmOnTop /\ issued' # issued) =>
              /\ issued' = issued + 1
              /\ reqs' = reqs \cup {[id |-> issued + 1, kind |-> "deleteMessage",
                                     arg |-> [path |-> "/messages",
                                              id |-> alerts[Len(alerts)].id]]} ]_vars

\* C11 witness: message 2 was deleted from the list <<2, 1>> twice over; the
\* first DELETE was confirmed and left <<1>>, the second is still in flight.
C11_Witness ==
    /\ screen = "ModeratorMessages" /\ mounted
    /\ issued = 3
    /\ \E r \in reqs : r.kind = "deleteMessage" /\ r.arg.id = 2
    /\ messages = <<[id |-> 1, created_at |-> 1]>>

\* alerts with the dialog on top dismissed
Dismissed == SubSeq(alerts, 1, Len(alerts) - 1)

\* the DELETE requests this step issued
DeletesIssued == { r \in reqs' \ reqs : r.kind = "deleteMessage" }

\* C12: a step issues a DELETE only by dismissing the confirmation dialog on
\* top, for the message that dialog names; the press of the delete control
\* (which opens the dialog) and Cancel (which dismisses it without a request)
\* leave the requests and the message list unchanged.
C12_NoDeleteBeforeConfirm ==
    [][ /\ DeletesIssued # {} =>
              /\ ConfirmOnTop
              /\ alerts' = Dismissed
              /\ \A r \in DeletesIssued : r.arg.id = alerts[Len(alerts)].id
        /\ (Len(alerts') = Len(alerts) + 1 /\ alerts'[Len(alerts')].kind = "confirm") =>
              (reqs' = reqs /\ issued' = issued /\ messages' = messages)
        /\ (ConfirmOnTop /\ alerts' = Dismissed /\ issued' = issued) =>
              (reqs' = reqs /\ messages' = messages) ]_vars

\* C12 witness: the dialog for message 2 is open over the list <<2, 1>> and no
\* request has been issued since the fetch.
C12_Witness ==
    /\ screen = "ModeratorMessages" /\ mounted
    /\ alerts = <<ConfirmAlert(2)>>
    /\ issued = 1 /\ reqs = {}
    /\ messages = <<[id |-> 2, created_at |-> 2], [id |-> 1, created_at |-> 1]>>

\* identifiers of the messages in a list
IdsOf(list) == { list[i].id : i \in 1..Len(list) }

\* C13: a step takes a message out of the list only when it runs the
\* continuation of a DELETE of that message which the server confirmed; a step
\* that catches the failure of a DELETE leaves the list unchanged and puts the
\* error alert on top.
C13_RemovedOnlyOnConfirmation ==
    [][ /\ \A id \in IdsOf(messages) \ IdsOf(messages') :
              \E r \in reqs :
                  r.kind = "deleteMessage" /\ r.arg.id = id /\ ServerConfirmed(r)
        /\ caught'.op = "deleteMessage" =>
              /\ messages' = messages
              /\ alerts' = Append(alerts, ErrorAlert) ]_vars

\* C13 witness: a DELETE failed, the error alert is on display and both
\* fetched messages are still listed.
C13_Witness ==
    /\ screen = "ModeratorMessages" /\ mounted
    /\ caught.op = "deleteMessage"
    /\ alerts = <<ErrorAlert>>
    /\ Len(messages) = 2
    /\ reqs = {}

-----------------------------------------------------------------------------
(* Joining a group by code *)

\* C14: in the join-group screen no step issues a request while the code is
\* not exactly six characters long (the empty code included), and a submit
\* press accepted with such a code shows an error toast; a step that issues a
\* request issues exactly one, POST /groups/join with body {group_code: code},
\* and a submit press accepted with a six-character code issues it.
C14_JoinCodeLength ==
    [][ screen = "JoinGroup" =>
          /\ Len(form.code) # GroupCodeLength =>
                /\ issued' = issued /\ reqs' \subseteq reqs
                /\ handleJoin => (toast'.type = "error" /\ ~loading')
          /\ issued' # issued =>
                /\ issued' = issued + 1
                /\ reqs' = reqs \cup {[id |-> issued + 1, kind |-> "joinGroup",
                                       arg |-> [path |-> "/groups/join",
                                                group_code |-> form.code]]}
          /\ (Len(form.code) = GroupCodeLength /\ handleJoin) => issued' = issued + 1 ]_vars

\* C14 witness: a five-character code was rejected, then the six-character
\* code typed as "aaaaaa" was submitted and is in flight in upper case.
C14_Witness ==
    /\ screen = "JoinGroup" /\ mounted /\ loading
    /\ toast = showToast(Lit("Code must be 6 characters"), "error", NoTitle, FALSE)
    /\ form.code = <<"A", "A", "A", "A", "A", "A">>
    /\ reqs = {[id |-> 1, kind |-> "joinGroup",
                arg |-> [path |-> "/groups/join", group_code |-> form.code]]}

-----------------------------------------------------------------------------
(* Registration: success *)

\* C15: once a registration screen has navigated, its first navigation is the
\* replacement by PilgrimDashboard with the user id of a successful response,
\* and the credentials of that response are persisted: role and user id under
\* their storage keys, the token under its key or handed to setAuthToken.
C15_PersistedThenLanding ==
    (screen \in RegistrationScreens /\ nav # <<>>) =>
        LET id == nav[1].userId IN
        /\ nav[1] = Replace("PilgrimDashboard", id)
        /\ id \in 1..issued
        /\ creds["token"] = id \/ authToken = id
        /\ creds["role"] = id
        /\ creds["user_id"] = id

-----------------------------------------------------------------------------
(* Failure handling *)

\* the operations whose failure has to leave the screen idle
SettlingKinds ==
    {"register", "updateProfile", "fetchProfile", "joinGroup", "fetchMessages",
     "fetchSessions"}

\* the submit control of the mounted screen is disabled
SubmitDisabled ==
    CASE screen = "SignUp" -> SignUpDisabled
      [] screen = "SignUpLocalized" -> SignUpLocalizedDisabled
      [] screen = "PilgrimSignUp" -> RegisterDisabled
      [] screen = "JoinGroup" -> JoinDisabled
      [] screen = "EditProfile" -> initialLoading \/ SaveDisabled
      [] OTHER -> FALSE

\* C16: right after the step that caught the failure of a registration,
\* profile save, profile fetch, join-group, message fetch or session fetch
\* request, the mounted screen is not loading and its submit control is
\* disabled for no other reason than an empty join code.
C16_FailureReturnsToIdle ==
    (caught.op \in SettlingKinds /\ mounted) =>
        /\ ~loading
        /\ ~initialLoading
        /\ SubmitDisabled => (screen = "JoinGroup" /\ form.code = <<>>)

\* C16 witness: the public pilgrim registration failed without a response and
\* the form is idle again under the fallback toast.
C16_Witness ==
    /\ screen = "PilgrimSignUp" /\ mounted
    /\ caught.op = "register" /\ ~caught.response
    /\ toast.type = "error"
    /\ ~loading /\ ~RegisterDisabled
    /\ reqs = {}

\* an error message is on display: an error toast or the error alert on top
ErrorDisplayed ==
    \/ toast.type = "error"
    \/ (alerts # <<>> /\ alerts[Len(alerts)].kind = "error")

\* C17: right after the step that caught the failure of a network operation,
\* the fetches on mount included, an error message is on display.
C17_NoErrorSwallowed ==
    (caught.op \notin {"none", "setItem"}) => ErrorDisplayed

\* a press, pull or dialog confirmation by which the user triggers an operation
UserAction ==
    \/ SubmitPress
    \/ handleJoin
    \/ handleSave
    \/ fetchSessions
    \/ \E sessionId \in SessionIds : handleJoinSession(sessionId)
    \/ alertDelete

\* C18: a step issues a request only as a user action, and then exactly one;
\* the step that catches a failure issues none, so the requests issued never
\* outnumber the user actions and the screen's mount.
C18_NoAutomaticRetry ==
    [][ /\ issued' # issued =>
              /\ UserAction
              /\ issued' = issued + 1
              /\ Cardinality(reqs' \ reqs) = 1
        /\ reqs' \ reqs # {} => issued' # issued
        /\ caught'.op # "none" => (issued' = issued /\ reqs' \subseteq reqs) ]_vars

\* C18 witness: the only join-group request failed and nothing is in flight.
C18_Witness ==
    /\ screen = "JoinGroup" /\ mounted
    /\ caught.op = "joinGroup"
    /\ issued = 1 /\ reqs = {}
    /\ ~loading

-----------------------------------------------------------------------------
(* Language change *)

\* C19: the step that completes changeLanguage(L) makes L the active language
\* and, when no other call is in flight, finds L persisted; while L is the
\* settled choice it stays persisted, and a later launch whose storage read
\* returned resolves to L whatever the device locale list is.
C19_LanguageRoundTrip ==
    /\ [][ (/\ changing # <<>> /\ Head(changing).written
            /\ changing' = Tail(changing) /\ initPc' = initPc) =>
              /\ language' = Head(changing).lang
              /\ Len(changing) = 1 => userLanguage' = Head(changing).lang ]_vars
    /\ [](settledChoice # Null =>
              /\ settledChoice \in SupportedLanguages
              /\ userLanguage = settledChoice
              /\ (relaunched /\ initPc \in {"done", "crashed"}) =>
                    /\ initPc = "done"
                    /\ lng = settledChoice
                    /\ language = settledChoice)

\* C19 witness: Arabic was chosen, the app was launched again on a device
\* whose first locale is French, and startup resolved to Arabic.
C19_Witness ==
    /\ settledChoice = "ar" /\ relaunched
    /\ initPc = "done"
    /\ Len(locales) > 0 /\ locales[1] = "fr"
    /\ userLanguage = "ar" /\ lng = "ar" /\ language = "ar"

\* C20: whenever initI18n has ended, it ended normally with the translation
\* engine initialised with a supported language and the fallback 'en'.
C20_StartupNeverCrashes ==
    initPc \notin {"getItem", "resume"} =>
        /\ initPc = "done"
        /\ lng \in SupportedLanguages
        /\ fallbackLng = "en"

-----------------------------------------------------------------------------
(* Join operations *)

\* this step issued or settled a request of the given kind
StepOf(kind) == \E r \in (reqs' \ reqs) \cup (reqs \ reqs') : r.kind = kind
\* this step issued a request of the given kind
Issues(kind) == \E r \in reqs' \ reqs : r.kind = kind

\* C21 as stated: a step that issues or settles a join-session or join-group
\* request changes nothing of the screen but the toast: lists, loading flag,
\* form, mount state and navigation stay as they were.
C21_JoinsOnlyNotify ==
    [][ (StepOf("joinSession") \/ StepOf("joinGroup")) =>
            UNCHANGED <<screen, mounted, form, loading, nav, listVars, regVars>> ]_vars

\* C21 amended: a join-session step changes nothing but the toast, the
\* sessions list and the loading flag included.  A join-group step leaves the
\* form and the lists alone; issuing sets loading, a failure shows an error
\* toast, clears loading and stays on the screen, and a success shows a
\* success toast and replaces the screen by PilgrimDashboard.
C21_JoinSessionOnlyNotifies ==
    [][ /\ StepOf("joinSession") =>
              /\ UNCHANGED <<screen, mounted, form, loading, nav, listVars, regVars>>
              /\ ~Issues("joinSession") => toast'.type \in {"success", "error"}
        /\ StepOf("joinGroup") =>
              /\ UNCHANGED <<screen, form, listVars, regVars>>
              /\ IF Issues("joinGroup")
                 THEN loading' /\ UNCHANGED <<mounted, nav, toast>>
                 ELSE IF caught'.op = "joinGroup"
                 THEN /\ toast'.type = "error"
                      /\ UNCHANGED <<mounted, nav>>
                      /\ mounted => ~loading'
                 ELSE /\ toast'.type = "success"
                      /\ nav' = Append(nav, Replace("PilgrimDashboard", RouteUserId))
                      /\ ~loading' ]_vars

\* C21 witness: a session of the two listed was joined; the success toast is
\* up, both sessions are still listed and the screen is not loading.
C21_Witness ==
    /\ screen = "Communication" /\ mounted
    /\ toast = showToast(Lit("Joined session (Simulation)"), "success", NoTitle, FALSE)
    /\ Len(sessions) = 2
    /\ ~loading /\ reqs = {}

-----------------------------------------------------------------------------
(* What the list screens render *)

ListScreens == {"Communication", "ModeratorMessages"}

\* the activity indicator is on display: the RefreshControl of the sessions
\* list while refreshing={loading}, the ActivityIndicator of the messages
\* screen while loading
LoadingShown == loading

\* the ListEmptyComponent is on display: a FlatList renders it whenever its
\* data is empty; the messages screen renders its FlatList only when loading
\* is false, the communication screen renders it always
EmptyShown ==
    CASE screen = "Communication" -> sessions = <<>>
      [] screen = "ModeratorMessages" -> ~loading /\ messages = <<>>
      [] OTHER -> FALSE

\* list items are on display
PopulatedShown ==
    CASE screen = "Communication" -> sessions # <<>>
      [] screen = "ModeratorMessages" -> ~loading /\ messages # <<>>
      [] OTHER -> FALSE

\* the fetch issued by the screen's useEffect is still in flight
InitialFetchInFlight == \E r \in reqs : r \in MountRequests(screen)

\* C22: a mounted list screen shows exactly one of the loading, empty and
\* populated states, and never the empty-state text while the fetch of its
\* mount is in flight.
C22_ExactlyOneListState ==
    (screen \in ListScreens /\ mounted) =>
        /\ Cardinality({ b \in {"loading", "empty", "populated"} :
                            \/ b = "loading" /\ LoadingShown
                            \/ b = "empty" /\ EmptyShown
                            \/ b = "populated" /\ PopulatedShown }) = 1
        /\ InitialFetchInFlight => (LoadingShown /\ ~EmptyShown)

-----------------------------------------------------------------------------
(* Profile save *)

\* C23: in the profile screen no step issues a PUT while name or phone is
\* empty, and a save press then shows an error toast and stays; the step that
\* settles a PUT successfully navigates back once, and the step that catches
\* its failure shows an error toast and leaves navigation, mount state and
\* the entered field values as they were.
C23_SaveOutcome ==
    [][ screen = "EditProfile" =>
          /\ (form.name = "" \/ form.phone = "") =>
                /\ issued' = issued /\ reqs' \subseteq reqs
                /\ handleSave => (toast'.type = "error" /\ UNCHANGED <<nav, mounted, form>>)
          /\ (StepOf("updateProfile") /\ ~Issues("updateProfile")) =>
                IF caught'.op = "updateProfile"
                THEN /\ toast'.type = "error"
                     /\ UNCHANGED <<nav, mounted, form>>
                ELSE /\ toast'.type = "success"
                     /\ nav' = Append(nav, GoBack)
                     /\ form' = form ]_vars

\* C23 witness: a save with both fields filled failed; the form is still
\* mounted with the entered values and nothing was navigated.
C23_Witness ==
    /\ screen = "EditProfile" /\ mounted
    /\ caught.op = "updateProfile"
    /\ form.name = "x" /\ form.phone = "x"
    /\ nav = <<>> /\ ~loading
    /\ toast.type = "error"

-----------------------------------------------------------------------------
(* Credential writes of the public pilgrim registration *)

\* of the response being saved, exactly the first s.written keys in the order
\* token, role, full_name, user_id hold its values
PrefixWritten(s) ==
    \A i \in 1..Len(CredentialKeys) :
        (creds[CredentialKeys[i]] = s.id) <=> (i <= s.written)

\* C24: while a response is being saved, exactly its first k keys in the
\* order token, role, full_name, user_id hold its values; every step writes at
\* most one key, the next one in that order; the step that catches a storage
\* failure after k writes leaves the keys as they are, shows the registration
\* failure toast and neither sets the token in memory nor navigates.
C24_WritesInOrderNotAtomic ==
    [][ screen = "PilgrimSignUp" =>
          /\ \A s \in saving : PrefixWritten(s)
          /\ creds' # creds =>
                \E s \in saving :
                    /\ s.written < Len(CredentialKeys)
                    /\ creds' = [creds EXCEPT ![CredentialKeys[s.written + 1]] = s.id]
          /\ caught'.op = "setItem" =>
                /\ \E s \in saving : saving' = saving \ {s}
                /\ creds' = creds
                /\ toast' = showToast(Lit("Registration failed"), "error", NoTitle, FALSE)
                /\ UNCHANGED <<nav, mounted, authToken>> ]_vars

\* C24 witness: the second response's token was written over the first one's
\* and then the role write failed: new token, stale role, failure toast, no
\* navigation.
C24_Witness ==
    /\ screen = "PilgrimSignUp" /\ mounted
    /\ caught.op = "setItem"
    /\ creds["token"] = 2 /\ creds["role"] = 1
    /\ toast = showToast(Lit("Registration failed"), "error", NoTitle, FALSE)
    /\ nav = <<>> /\ authToken = 0

-----------------------------------------------------------------------------
(* Landing on the dashboard *)

\* the navigation calls made by the step
NewCalls == { nav'[i] : i \in (Len(nav) + 1)..Len(nav') }

\* what a step of a registration screen does about the token, the timer, the
\* toast action and the navigation
DashboardStep ==
    screen \in RegistrationScreens =>
          /\ \A id \in timers' \ timers : authToken' = id
          /\ (toast'.action /\ (~toast.action \/ authToken' # authToken))
                => authToken' \in timers' \ timers
          /\ \A call \in NewCalls :
                call.route = "PilgrimDashboard" =>
                    /\ call.op = "replace"
                    /\ authToken' # 0
                    /\ screen = "PilgrimSignUp" =>
                          /\ authToken' = call.userId
                          /\ \A i \in 1..Len(CredentialKeys) :
                                creds'[CredentialKeys[i]] = call.userId
                    /\ screen # "PilgrimSignUp" =>
                          \/ call.userId \in timers
                          \/ (toast.action /\ call.userId = authToken)

\* C25: a registration screen calls navigation.replace('PilgrimDashboard')
\* only for a response whose token setAuthToken has received: the timer and
\* the Continue action exist only from the step that set that token, and the
\* pilgrim registration navigates in the step that sets the token, with all
\* four keys holding the response's values; no such call is made with the
\* token unset.
C25_DashboardOnlyAfterToken == [][DashboardStep]_vars

\* C25 witness: the pilgrim registration has landed on the dashboard with
\* the token set and all four keys written
C25_Witness ==
    /\ screen = "PilgrimSignUp"
    /\ nav = <<Replace("PilgrimDashboard", 1)>>
    /\ authToken = 1
    /\ \A i \in 1..Len(CredentialKeys) : creds[CredentialKeys[i]] = 1

-----------------------------------------------------------------------------
(* Submitting again after a success *)

\* C26: in SignUpScreen, once a registration has succeeded no further
\* registration request is issued.
C26_NoSecondRegistration ==
    [][ (screen \in {"SignUp", "SignUpLocalized"} /\ authToken # 0)
            => ~Issues("register") ]_vars

\* the calls of navigation.replace to PilgrimDashboard made for response id
DashboardReplaces(id) ==
    { i \in 1..Len(nav) : nav[i] = Replace("PilgrimDashboard", id) }

\* C27: in SignUpScreen each successful registration causes at most one
\* navigation.replace to PilgrimDashboard.
C27_AtMostOneReplace ==
    screen \in {"SignUp", "SignUpLocalized"} =>
        \A id \in 1..issued : Cardinality(DashboardReplaces(id)) <= 1

-----------------------------------------------------------------------------
(* Deletions settling in any order *)

DeletesInFlight == { r \in reqs : r.kind = "deleteMessage" }

\* C28: on the messages screen, once the fetch and every confirmed deletion
\* have settled, the list is the fetched list without exactly the ids whose
\* DELETE succeeded, in the fetched newest-first order.
C28_ListIsFetchedMinusDeleted ==
    (screen = "ModeratorMessages" /\ mounted /\ ~loading /\ DeletesInFlight = {})
        => messages = SelectSeq(fetched.data, LAMBDA msg : msg.id \notin deleted)

\* C28 witness: of two fetched messages one was deleted and the deletion of
\* the other, settling last, failed
C28_Witness ==
    /\ screen = "ModeratorMessages" /\ mounted /\ ~loading
    /\ Len(fetched.data) = 2
    /\ deleted = {fetched.data[1].id}
    /\ caught.op = "deleteMessage"
    /\ DeletesInFlight = {}
    /\ messages = <<fetched.data[2]>>

-----------------------------------------------------------------------------
(* Overlapping fetches of the sessions list *)

FetchesInFlight == { r \in reqs : r.kind = "fetchSessions" }

\* C29: on the communication screen, once every fetch has settled and at
\* least one succeeded, the sessions list is the answer to the latest-issued
\* fetch that succeeded.
C29_NewestFetchWins ==
    (screen = "Communication" /\ mounted /\ FetchesInFlight = {} /\ fetched.id # 0)
        => sessions = fetched.data

-----------------------------------------------------------------------------
(* Language changes racing with startup *)

\* C30: within one run of the app, once startup has finished and every
\* changeLanguage call has settled, the last one issued having succeeded, the
\* active language and the persisted preference both equal its argument.
C30_LastChangeWins ==
    (initPc = "done" /\ changing = <<>> /\ settledChoice # Null /\ ~relaunched)
        => (language = settledChoice /\ userLanguage = settledChoice)

=============================================================================
